---- MODULE Spec2Model ----
(***************************************************************************)
(* Model of app.py: the phishing-URL feature extraction pipeline           *)
(* (extract_features and its sixteen feature functions), the request       *)
(* handler make_prediction_and_explain, the start-up choice of the SHAP    *)
(* explainer, and the lru_cache that memoises check_dns_record.            *)
(*                                                                         *)
(* A URL is a sequence of one-character strings.  Feature slot k of the    *)
(* Python list (0-based) is element k+1 of the TLA+ sequence.              *)
(***************************************************************************)
EXTENDS Integers, Sequences, FiniteSets, TLC

(***************************************************************************)
(* Bounds of the model.                                                    *)
(***************************************************************************)
\* longest tail (path characters) appended to a URL head
MaxTail == 3
\* largest number of model outputs the explainer may report
MaxOutputs == 2
\* number of threads calling check_dns_record concurrently
NThreads == 2
\* total number of check_dns_record calls in a run of the cache model
MaxCalls == 4
\* capacity of the DNS cache (lru_cache(maxsize=10000)), scaled down
maxsize == 2

(***************************************************************************)
(* Program constants.                                                      *)
(***************************************************************************)
NSlots == 16
ShortUrlLimit == 54
MinAgeDays == 365
MinDaysToExpire == 180

(***************************************************************************)
(* Characters and string helpers.                                          *)
(***************************************************************************)
Digits == {"0", "1", "2", "3", "4", "5", "6", "7", "8", "9"}
Letters == {"a", "b", "c", "d", "e", "f", "g", "h", "i", "j", "k", "l", "m",
            "n", "o", "p", "q", "r", "s", "t", "u", "v", "w", "x", "y", "z"}
SchemeChars == Letters \cup Digits \cup {"+", "-", "."}
WordChars == Letters \cup Digits \cup {"_"}

HasChar(s, c) == \E i \in DOMAIN s : s[i] = c

CountChar(s, c) == Cardinality({i \in DOMAIN s : s[i] = c})

HasSub(s, sub) ==
    \E i \in 1..(Len(s) - Len(sub) + 1) : SubSeq(s, i, i + Len(sub) - 1) = sub

\* index of the first character of s, at or after position from, that is in cs;
\* Len(s) + 1 when there is none
FirstOf(s, cs, from) ==
    LET hits == {i \in from..Len(s) : s[i] \in cs}
    IN  IF hits = {} THEN Len(s) + 1
        ELSE CHOOSE i \in hits : \A j \in hits : i <= j

\* str.rstrip('/')
RECURSIVE RStripSlash(_)
RStripSlash(s) ==
    IF s # <<>> /\ s[Len(s)] = "/" THEN RStripSlash(SubSeq(s, 1, Len(s) - 1))
    ELSE s

RECURSIVE Repeat(_, _)
Repeat(c, n) == IF n = 0 THEN <<>> ELSE <<c>> \o Repeat(c, n - 1)

(***************************************************************************)
(* urllib.parse.urlparse, as far as app.py uses it: the scheme, the        *)
(* network location and the path; ok = FALSE is the ValueError raised for  *)
(* an unbalanced '[' or ']' in the network location.                       *)
(***************************************************************************)
urlparse(url) ==
    LET colon == FirstOf(url, {":"}, 1)
        hasScheme == /\ colon > 1
                     /\ colon <= Len(url)
                     /\ url[1] \in Letters
                     /\ \A i \in 1..(colon - 1) : url[i] \in SchemeChars
        scheme == IF hasScheme THEN SubSeq(url, 1, colon - 1) ELSE <<>>
        rest == IF hasScheme THEN SubSeq(url, colon + 1, Len(url)) ELSE url
        hasNetloc == Len(rest) >= 2 /\ rest[1] = "/" /\ rest[2] = "/"
        delim == FirstOf(rest, {"/", "?", "#"}, 3)
        netloc == IF hasNetloc THEN SubSeq(rest, 3, delim - 1) ELSE <<>>
        after == IF hasNetloc THEN SubSeq(rest, delim, Len(rest)) ELSE rest
        path == SubSeq(after, 1, FirstOf(after, {"?", "#"}, 1) - 1)
        bad == \/ HasChar(netloc, "[") /\ ~HasChar(netloc, "]")
               \/ HasChar(netloc, "]") /\ ~HasChar(netloc, "[")
    IN  [ok |-> ~bad, scheme |-> scheme, netloc |-> netloc, path |-> path]

(***************************************************************************)
(* Lexical feature functions.                                              *)
(***************************************************************************)
\* regex \b : a word character on exactly one side of the gap before s[i]
WordBoundary(s, i) ==
    LET before == i > 1 /\ i - 1 <= Len(s) /\ s[i - 1] \in WordChars
        here == i >= 1 /\ i <= Len(s) /\ s[i] \in WordChars
    IN  before # here

\* (?:[0-9]{1,3}\.) matched at position i with n digits
DigitGroup(s, i, n) ==
    /\ i + n <= Len(s)
    /\ \A j \in i..(i + n - 1) : s[j] \in Digits
    /\ s[i + n] = "."

\* the text the pattern requires after the three groups: one digit and the
\* literal characters {1-3} (the braces hold no comma, so they are no
\* quantifier)
IpTail == <<"{", "1", "-", "3", "}">>

IpMatchAt(s, i) ==
    /\ WordBoundary(s, i)
    /\ \E a, b, c \in 1..3 :
          LET e == i + a + b + c + 3
          IN  /\ DigitGroup(s, i, a)
              /\ DigitGroup(s, i + a + 1, b)
              /\ DigitGroup(s, i + a + b + 2, c)
              /\ e + Len(IpTail) <= Len(s)
              /\ s[e] \in Digits
              /\ SubSeq(s, e + 1, e + Len(IpTail)) = IpTail
              /\ WordBoundary(s, e + Len(IpTail) + 1)

has_ip_address(url) == IF \E i \in DOMAIN url : IpMatchAt(url, i) THEN 1 ELSE 0

has_at_symbol(url) == IF HasChar(url, "@") THEN 1 ELSE 0

get_url_length(url) == IF Len(url) < ShortUrlLimit THEN 1 ELSE 0

get_url_depth(url) ==
    LET path == urlparse(url).path
    IN  IF path = <<"/">> THEN 0 ELSE CountChar(path, "/")

has_redirection(url) == IF HasSub(urlparse(url).path, <<"/", "/">>) THEN 1 ELSE 0

has_https_in_domain(url) ==
    IF HasSub(urlparse(url).netloc, <<"h", "t", "t", "p", "s">>) THEN 1 ELSE 0

tiny_domain == { <<"b", "i", "t", ".", "l", "y">>,
                 <<"g", "o", "o", "g", ".", "g", "l">>,
                 <<"t", "i", "n", "y", "u", "r", "l", ".", "c", "o", "m">>,
                 <<"o", "w", ".", "l", "y">>,
                 <<"t", ".", "c", "o">> }

is_tiny_url(url) == IF urlparse(url).netloc \in tiny_domain THEN 1 ELSE 0

has_prefix_suffix(url) == IF HasChar(urlparse(url).netloc, "-") THEN 1 ELSE 0

allows_right_click(url) == 1

\* the eight lexical slots in list order (slots 0..7)
LexicalSlots(url) ==
    << has_ip_address(url), has_at_symbol(url), get_url_length(url),
       get_url_depth(url), has_redirection(url), has_https_in_domain(url),
       is_tiny_url(url), has_prefix_suffix(url) >>

(***************************************************************************)
(* Network probes.  Each takes what the network did as an argument; the    *)
(* result is [exc, val]: the exception that leaves the function ("none"    *)
(* when it returns) and the value returned.                                *)
(***************************************************************************)
NoExc == "none"
Returns(v) == [exc |-> NoExc, val |-> v]
Raises(e) == [exc |-> e, val |-> 0]

\* socket.gethostbyname encodes its argument with the idna codec before it
\* resolves: every label but the last has 1..63 characters, the last at most 63
HostEncodable(domain) ==
    /\ \A i \in DOMAIN domain :
          domain[i] = "." => i > 1 /\ domain[i - 1] # "."
    /\ \A i \in 1..(Len(domain) - 63) :
          \E j \in i..(i + 63) : domain[j] = "."

\* what socket.gethostbyname(domain) does, given the resolver's answer
DnsAnswers == {"ok", "gaierror", "timeout"}
gethostbyname(domain, answer) ==
    IF ~HostEncodable(domain) THEN "UnicodeError"
    ELSE IF answer = "ok" THEN NoExc
    ELSE answer

\* the exceptions `except socket.error` catches (OSError and its subclasses)
IsSocketError(e) == e \in {"gaierror", "timeout"}

\* the body of check_dns_record (what runs on a cache miss)
check_dns_record(domain, answer) ==
    LET e == gethostbyname(domain, answer)
    IN  IF e = NoExc THEN Returns(1)
        ELSE IF IsSocketError(e) THEN Returns(0)
        ELSE Raises(e)

get_web_traffic(domain, ranked) == IF domain \in ranked THEN 1 ELSE 0

\* WHOIS answers: the lookup fails, the record has no date, or it has one
\* (days = age in days, or days left until expiry)
WhoisAnswers(limit) ==
    { [kind |-> "fail", days |-> 0], [kind |-> "nodate", days |-> 0],
      [kind |-> "date", days |-> limit - 1], [kind |-> "date", days |-> limit] }

get_domain_age(answer) ==
    IF answer.kind = "date"
    THEN Returns(IF answer.days >= MinAgeDays THEN 1 ELSE 0)
    ELSE Returns(0)

get_domain_end_period(answer) ==
    IF answer.kind = "date"
    THEN Returns(IF answer.days >= MinDaysToExpire THEN 1 ELSE 0)
    ELSE Returns(0)

\* HTTP answers: the fetch fails or returns a page (marker = 'onmouseover' in
\* the body, hops = len(response.history)); TimedOut is what requests.get
\* raises when its timeout= expires first
MinRedirects == 3
HttpAnswers ==
    { [kind |-> "fail", marker |-> FALSE, hops |-> 0] }
    \cup { [kind |-> "page", marker |-> m, hops |-> h] :
              m \in BOOLEAN, h \in {MinRedirects - 1, MinRedirects} }
TimedOut == [kind |-> "timeout", marker |-> FALSE, hops |-> 0]

has_mouse_over_effect(answer) ==
    IF answer.kind = "page" THEN Returns(IF answer.marker THEN 1 ELSE 0)
    ELSE Returns(0)

\* variant: the redirect count itself instead of the indicator
has_web_forwards_count(answer) ==
    IF answer.kind = "page" THEN Returns(answer.hops) ELSE Returns(0)

has_web_forwards(answer) ==
    IF answer.kind = "page"
    THEN Returns(IF answer.hops >= MinRedirects THEN 1 ELSE 0)
    ELSE Returns(0)

\* the timeout= argument of each probe's network call, 0 when it passes none
MouseOverTimeout == 5
WebForwardsTimeout == 3
probe_timeout(p) ==
    CASE p = "mouse" -> MouseOverTimeout
      [] p = "fwd" -> WebForwardsTimeout
      [] OTHER -> 0

(***************************************************************************)
(* functools.lru_cache(maxsize) around check_dns_record.  The cache is a   *)
(* sequence of [key, result] from least to most recently used.             *)
(***************************************************************************)
CacheKeys(c) == {c[i].key : i \in DOMAIN c}

CacheIndex(c, k) == CHOOSE i \in DOMAIN c : c[i].key = k

\* variant: the lookup never finds the key
cache_hit_never(c, k) == FALSE

\* the lookup at the start of a call: a hit iff the key has an entry
cache_hit(c, k) == k \in CacheKeys(c)

cache_result(c, k) == c[CacheIndex(c, k)].result

Without(c, i) == SubSeq(c, 1, i - 1) \o SubSeq(c, i + 1, Len(c))

\* variant: a hit leaves the order alone (first in, first out)
cache_touch_fifo(c, k) == c

\* a hit moves the entry to the most-recently-used end
cache_touch(c, k) ==
    LET i == CacheIndex(c, k) IN Append(Without(c, i), c[i])

\* the entry a full cache gives up: the one at the least-recently-used end
cache_victim(c) == 1

\* storing a result after a miss: nothing when another call stored the key
\* meanwhile; else append, evicting first when the cache is full
cache_store(c, k, v) ==
    IF k \in CacheKeys(c) THEN c
    ELSE IF Len(c) < maxsize THEN Append(c, [key |-> k, result |-> v])
    ELSE Append(Without(c, cache_victim(c)), [key |-> k, result |-> v])

(***************************************************************************)
(* The explainer's return value and its reshaping.  An array is            *)
(* [shape, data]; data lists, in row-major order, which <<slot, output>>   *)
(* each attribution belongs to.  A return value is [islist, items]: a      *)
(* Python list of arrays, or one array (items has one element).            *)
(***************************************************************************)
Slots == 0..(NSlots - 1)

\* row-major data of an array of shape (1, NSlots, k) for outputs o0+1..o0+k
RECURSIVE RowMajor(_, _, _)
RowMajor(n, k, o0) ==
    IF n = 0 THEN <<>>
    ELSE RowMajor(n - 1, k, o0) \o [j \in 1..k |-> <<n - 1, o0 + j>>]

Array2D(o) == [shape |-> <<1, NSlots>>, data |-> RowMajor(NSlots, 1, o - 1)]
Array3D(k) == [shape |-> <<1, NSlots, k>>, data |-> RowMajor(NSlots, k, 0)]

ShapReturns ==
    { [islist |-> TRUE, items |-> [o \in 1..k |-> Array2D(o)]] : k \in 1..MaxOutputs }
    \cup { [islist |-> FALSE, items |-> <<Array2D(1)>>] }
    \cup { [islist |-> FALSE, items |-> <<Array3D(k)>>] : k \in 1..MaxOutputs }

NoArray == [shape |-> <<>>, data |-> <<>>]

\* np.squeeze(a, axis=-1): drops the last axis when its size is 1, else raises
SqueezeOk(a) == a.shape[Len(a.shape)] = 1

\* variant: axis 0 is dropped instead of the last axis
squeeze_first(a) == [shape |-> SubSeq(a.shape, 2, Len(a.shape)), data |-> a.data]

squeeze_last(a) == [shape |-> SubSeq(a.shape, 1, Len(a.shape) - 1), data |-> a.data]

\* lines 169-172: [exc, val] of the reshaping of one return value
reshape_shap_values(sv) ==
    LET a == sv.items[1]
    IN  IF Len(a.shape) = 3
        THEN IF SqueezeOk(a) THEN [exc |-> NoExc, val |-> squeeze_last(a)]
             ELSE [exc |-> "ValueError: cannot squeeze", val |-> NoArray]
        ELSE [exc |-> NoExc, val |-> a]

(***************************************************************************)
(* State.                                                                  *)
(***************************************************************************)
VARIABLES
    url,             \* the text the user entered (url_input)
    ranked_domains,  \* the ranking list loaded at import; empty when missing
    explainer,       \* "none" before start-up, then "Deep" or "Kernel"
    warned,          \* st.warning was shown by get_shap_explainer
    pc,              \* position of the request inside make_prediction_and_explain
    features,        \* the feature list extract_features has built so far
    err,             \* the exception make_prediction_and_explain caught
    outcome,         \* what make_prediction_and_explain returned
    dnsSeen,         \* what socket.gethostbyname did in this request
    netUp,           \* some network operation of this request succeeded
    shapSeen,        \* what explainer.shap_values did in this request
    cache,           \* the lru_cache of check_dns_record
    tpc,             \* cache model: position of each thread's call
    tkey,            \* cache model: the domain each thread is resolving
    last,            \* cache model: the call that finished last and its result
    calls,           \* cache model: calls started so far
    hist             \* cache model: bookkeeping of lookups and resolutions

pvars == <<url, ranked_domains, explainer, warned, pc, features, err, outcome,
           dnsSeen, netUp, shapSeen>>
tvars == <<tpc, tkey, last, calls, hist>>
vars == <<url, ranked_domains, explainer, warned, pc, features, err, outcome,
          dnsSeen, netUp, shapSeen, cache, tpc, tkey, last, calls, hist>>

(***************************************************************************)
(* The URLs of the model: a head, a tail of at most MaxTail path           *)
(* characters, and an optional query.                                      *)
(***************************************************************************)
HTTP == <<"h", "t", "t", "p", ":", "/", "/">>
HostIP == <<"1", "9", "2", ".", "1", "6", "8", ".", "1", ".", "1">>
HostPlain == <<"a", ".", "b">>
HostTiny == <<"t", ".", "c", "o">>
HostHyphen == <<"a", "-", "b">>
HostHttps == <<"h", "t", "t", "p", "s", ".", "a">>
HostEmptyLabel == <<"a", ".", ".", "b">>
HostBracket == <<"[", "a">>
HostIPBraces == <<"1", ".", "1", ".", "1", ".", "1", "{", "1", "-", "3", "}", "a">>
HostUserInfo == <<"a", "@", "b">>
LongLabel == 45
HostLong == Repeat("a", LongLabel)

Hosts == { HostIP, HostPlain, HostTiny, HostHyphen, HostHttps, HostEmptyLabel,
           HostBracket, HostIPBraces, HostUserInfo, HostLong }

Heads == { HTTP \o h : h \in Hosts } \cup { HostPlain, HostIP, <<>> }

Tails == UNION { [1..n -> {"/", "a"}] : n \in 0..MaxTail }

Queries == { <<>>, <<"?", "a">> }

URLs == { h \o t \o q : h \in Heads, t \in Tails, q \in Queries }

RankingLists == { {}, {HostPlain} }

NoOutcome == [prediction |-> "pending", features |-> <<>>, shap_values |-> NoArray]
ErrorOutcome == [prediction |-> "None", features |-> <<>>, shap_values |-> NoArray]

NotCalled == [called |-> FALSE, raised |-> FALSE,
              ret |-> [islist |-> FALSE, items |-> <<>>]]

Threads == 1..NThreads

\* the domains the cache model's callers ask for
CacheDomains == {HostPlain, HostTiny, HostHyphen, HostHttps, HostEmptyLabel}

\* bookkeeping of the cache model (it records, it decides nothing):
\*   saw, sawVal  per resolving thread: the entry its call found at its start
\*   issued       per domain: resolver queries sent since its entry was last evicted
\*   first        per domain: the value the first of those calls returned, -1 if none
\*   differ       a later call returned another value than the first
\*   order        the cached domains, the one looked up or inserted longest ago first
\*   born         the cached domains, the one inserted longest ago first
\*   evictions, evictedOldest, evictedRefreshed
\*                entries evicted so far; each was the least recently used one;
\*                some victim was not the oldest inserted one
NoHist ==
    [saw |-> [t \in Threads |-> FALSE], sawVal |-> [t \in Threads |-> 0],
     issued |-> [d \in CacheDomains |-> 0], first |-> [d \in CacheDomains |-> -1],
     differ |-> FALSE, order |-> <<>>, born |-> <<>>,
     evictions |-> 0, evictedOldest |-> TRUE, evictedRefreshed |-> FALSE]

\* a finished call: its domain, its result, the entry it found in the cache
\* at its start (saw, sawVal) and whether it invoked socket.gethostbyname
Finished(d, r, saw, sawVal, resolved) ==
    [done |-> TRUE, key |-> d, ret |-> r, saw |-> saw, sawVal |-> sawVal,
     resolved |-> resolved]

NoCall == [done |-> FALSE, key |-> <<>>, ret |-> Returns(0), saw |-> FALSE,
           sawVal |-> 0, resolved |-> FALSE]

\* sequence q without the elements of set S
RECURSIVE Minus(_, _)
Minus(q, S) ==
    IF q = <<>> THEN <<>>
    ELSE IF Head(q) \in S THEN Minus(Tail(q), S)
    ELSE <<Head(q)>> \o Minus(Tail(q), S)

(***************************************************************************)
(* The request pipeline.                                                   *)
(***************************************************************************)
\* the URL extract_features works on (line 147) and its host (line 148)
Stripped == RStripSlash(url)
Domain == urlparse(Stripped).netloc

\* an exception reaches the except clause of make_prediction_and_explain
Fail(e) ==
    /\ err' = e
    /\ outcome' = ErrorOutcome
    /\ pc' = "done"

\* lines 47-56, run once at import
get_shap_explainer ==
    /\ pc = "boot"
    /\ pc' = "idle"
    /\ \/ explainer' = "Deep" /\ warned' = FALSE
       \/ explainer' = "Kernel" /\ warned' = TRUE
    /\ UNCHANGED <<url, ranked_domains, features, err, outcome, dnsSeen, netUp,
                   shapSeen, cache, tvars>>

\* lines 162-164 and 147-151: the call, rstrip, urlparse and the lexical slots
BeginRequest ==
    /\ pc = "idle"
    /\ IF urlparse(Stripped).ok
       THEN /\ features' = LexicalSlots(Stripped)
            /\ pc' = "dns"
            /\ UNCHANGED <<err, outcome>>
       ELSE /\ Fail("ValueError: Invalid IPv6 URL")
            /\ UNCHANGED features
    /\ UNCHANGED <<url, ranked_domains, explainer, warned, dnsSeen, netUp,
                   shapSeen, cache, tvars>>

\* line 151: check_dns_record(domain) up to the resolver query; a cached
\* domain is answered at once, a host the idna codec rejects raises at once
DnsCall ==
    /\ pc = "dns"
    /\ IF cache_hit(cache, Domain)
       THEN /\ features' = features \o << cache_result(cache, Domain),
                                         get_web_traffic(Domain, ranked_domains) >>
            /\ cache' = cache_touch(cache, Domain)
            /\ pc' = "age_wait"
            /\ UNCHANGED <<err, outcome, dnsSeen>>
       ELSE IF HostEncodable(Domain)
       THEN /\ pc' = "dns_wait"
            /\ UNCHANGED <<features, cache, err, outcome, dnsSeen>>
       ELSE LET r == check_dns_record(Domain, "gaierror")
            IN  /\ dnsSeen' = gethostbyname(Domain, "gaierror")
                /\ UNCHANGED cache
                /\ IF r.exc = NoExc
                   THEN /\ features' = features \o
                               << r.val, get_web_traffic(Domain, ranked_domains) >>
                        /\ pc' = "age_wait"
                        /\ UNCHANGED <<err, outcome>>
                   ELSE /\ Fail(r.exc)
                        /\ UNCHANGED features
    /\ UNCHANGED <<url, ranked_domains, explainer, warned, netUp, shapSeen, tvars>>

\* lines 91-96 and 102-103: the resolver answers; the result is cached
DnsAnswer(a) ==
    /\ pc = "dns_wait"
    /\ LET r == check_dns_record(Domain, a)
       IN  /\ dnsSeen' = IF a = "ok" THEN "ok" ELSE gethostbyname(Domain, a)
           /\ netUp' = (netUp \/ a = "ok")
           /\ IF r.exc = NoExc
              THEN /\ features' = features \o
                          << r.val, get_web_traffic(Domain, ranked_domains) >>
                   /\ cache' = cache_store(cache, Domain, r.val)
                   /\ pc' = "age_wait"
                   /\ UNCHANGED <<err, outcome>>
              ELSE /\ Fail(r.exc)
                   /\ UNCHANGED <<features, cache>>
    /\ UNCHANGED <<url, ranked_domains, explainer, warned, shapSeen, tvars>>

\* lines 105-114
AgeAnswer(a) ==
    /\ pc = "age_wait"
    /\ features' = Append(features, get_domain_age(a).val)
    /\ netUp' = (netUp \/ a.kind # "fail")
    /\ pc' = "end_wait"
    /\ UNCHANGED <<url, ranked_domains, explainer, warned, err, outcome, dnsSeen,
                   shapSeen, cache, tvars>>

\* lines 116-125, and the constant 0 of slot 12
EndAnswer(a) ==
    /\ pc = "end_wait"
    /\ features' = features \o << get_domain_end_period(a).val, 0 >>
    /\ netUp' = (netUp \/ a.kind # "fail")
    /\ pc' = "mouse_wait"
    /\ UNCHANGED <<url, ranked_domains, explainer, warned, err, outcome, dnsSeen,
                   shapSeen, cache, tvars>>

\* lines 127-136: the page arrives or the fetch fails
MouseDone(a) ==
    /\ features' = features \o << has_mouse_over_effect(a).val,
                                  allows_right_click(Stripped) >>
    /\ netUp' = (netUp \/ a.kind = "page")
    /\ pc' = "fwd_wait"
    /\ UNCHANGED <<url, ranked_domains, explainer, warned, err, outcome, dnsSeen,
                   shapSeen, cache, tvars>>

MouseAnswer(a) == pc = "mouse_wait" /\ MouseDone(a)

\* line 129: timeout=5 expires
MouseTimeout ==
    pc = "mouse_wait" /\ probe_timeout("mouse") > 0 /\ MouseDone(TimedOut)

\* lines 138-144 and 154
FwdDone(a) ==
    /\ features' = Append(features, has_web_forwards(a).val)
    /\ netUp' = (netUp \/ a.kind = "page")
    /\ pc' = "extracted"
    /\ UNCHANGED <<url, ranked_domains, explainer, warned, err, outcome, dnsSeen,
                   shapSeen, cache, tvars>>

FwdAnswer(a) == pc = "fwd_wait" /\ FwdDone(a)

\* line 140: timeout=3 expires
FwdTimeout ==
    pc = "fwd_wait" /\ probe_timeout("fwd") > 0 /\ FwdDone(TimedOut)

\* line 165: the scaler accepts a row of NSlots values only
scaler_ok(f) == Len(f) = NSlots

\* lines 165-173: scaling, prediction, attribution and reshaping, when
\* explainer.shap_values returns sv
ExplainReturns(sv) ==
    /\ pc = "extracted"
    /\ shapSeen' = [called |-> scaler_ok(features), raised |-> FALSE, ret |-> sv]
    /\ LET r == reshape_shap_values(sv)
       IN  IF ~scaler_ok(features) THEN Fail("ValueError: scaler")
           ELSE IF r.exc # NoExc THEN Fail(r.exc)
           ELSE /\ outcome' = [prediction |-> "float", features |-> features,
                               shap_values |-> r.val]
                /\ pc' = "done"
                /\ UNCHANGED err
    /\ UNCHANGED <<url, ranked_domains, explainer, warned, features, dnsSeen,
                   netUp, cache, tvars>>

\* line 167 raises: the DeepExplainer cannot handle the classifier
ExplainRaises ==
    /\ pc = "extracted"
    /\ explainer = "Deep"
    /\ scaler_ok(features)
    /\ shapSeen' = [called |-> TRUE, raised |-> TRUE, ret |-> NotCalled.ret]
    /\ Fail("IncompatibleExplainer")
    /\ UNCHANGED <<url, ranked_domains, explainer, warned, features, dnsSeen,
                   netUp, cache, tvars>>

IdleThreads ==
    /\ tpc = [t \in Threads |-> "idle"]
    /\ tkey = [t \in Threads |-> <<>>]
    /\ last = NoCall
    /\ calls = 0

Init ==
    /\ url \in URLs
    /\ ranked_domains \in RankingLists
    /\ explainer = "none"
    /\ warned = FALSE
    /\ pc = "boot"
    /\ features = <<>>
    /\ err = NoExc
    /\ outcome = NoOutcome
    /\ dnsSeen = "idle"
    /\ netUp = FALSE
    /\ shapSeen = NotCalled
    /\ cache = <<>>
    /\ IdleThreads
    /\ hist = NoHist

Next ==
    \/ get_shap_explainer
    \/ BeginRequest
    \/ DnsCall
    \/ \E a \in DnsAnswers : DnsAnswer(a)
    \/ \E a \in WhoisAnswers(MinAgeDays) : AgeAnswer(a)
    \/ \E a \in WhoisAnswers(MinDaysToExpire) : EndAnswer(a)
    \/ \E a \in HttpAnswers : MouseAnswer(a)
    \/ MouseTimeout
    \/ \E a \in HttpAnswers : FwdAnswer(a)
    \/ FwdTimeout
    \/ \E sv \in ShapReturns : ExplainReturns(sv)
    \/ ExplainRaises

(***************************************************************************)
(* The cache model: NThreads threads call check_dns_record directly.       *)
(* lru_cache looks the key up and, on a miss, calls the function without   *)
(* holding any lock; it stores the result when the function has returned.  *)
(***************************************************************************)
\* what a step records about the return of a call for domain d with result r
Returned(h, d, r) ==
    IF r.exc # NoExc THEN h
    ELSE [h EXCEPT !.first[d] = IF @ = -1 THEN r.val ELSE @,
                   !.differ = @ \/ (h.first[d] # -1 /\ h.first[d] # r.val)]

\* what a step records about the change of the cache from c to c2 by a
\* call for domain d
Stored(h, c, c2, d) ==
    LET new == CacheKeys(c2) \ CacheKeys(c)
        gone == CacheKeys(c) \ CacheKeys(c2)
        more == IF d \in new THEN <<d>> ELSE <<>>
    IN  [h EXCEPT
           !.order = Minus(@, gone) \o more,
           !.born = Minus(@, gone) \o more,
           !.issued = [k \in CacheDomains |-> IF k \in gone THEN 0 ELSE @[k]],
           !.first = [k \in CacheDomains |-> IF k \in gone THEN -1 ELSE @[k]],
           !.evictions = @ + Cardinality(gone),
           !.evictedOldest = @ /\ \A v \in gone : v = Head(h.order),
           !.evictedRefreshed = @ \/ \E v \in gone : v # Head(h.born)]

\* lines 90-91: a thread calls check_dns_record(d); the cache is looked up
Call(t, d) ==
    /\ tpc[t] = "idle"
    /\ calls < MaxCalls
    /\ calls' = calls + 1
    /\ LET present == d \in CacheKeys(cache)
           val == IF present THEN cache[CacheIndex(cache, d)].result ELSE 0
           h0 == [hist EXCEPT
                    !.order = IF present THEN Append(Minus(@, {d}), d) ELSE @]
       IN  IF cache_hit(cache, d)
           THEN LET r == Returns(cache_result(cache, d))
                IN  /\ last' = Finished(d, r, present, val, FALSE)
                    /\ cache' = cache_touch(cache, d)
                    /\ hist' = Returned(h0, d, r)
                    /\ UNCHANGED <<tpc, tkey>>
           ELSE IF HostEncodable(d)
           THEN /\ tpc' = [tpc EXCEPT ![t] = "resolving"]
                /\ tkey' = [tkey EXCEPT ![t] = d]
                /\ hist' = [h0 EXCEPT !.saw[t] = present, !.sawVal[t] = val,
                                      !.issued[d] = @ + 1]
                /\ UNCHANGED <<last, cache>>
           ELSE LET r == check_dns_record(d, "gaierror")
                    c2 == IF r.exc = NoExc THEN cache_store(cache, d, r.val) ELSE cache
                IN  /\ last' = Finished(d, r, present, val, TRUE)
                    /\ cache' = c2
                    /\ hist' = Returned(Stored(h0, cache, c2, d), d, r)
                    /\ UNCHANGED <<tpc, tkey>>
    /\ UNCHANGED pvars

\* lines 92-96: the resolver answers thread t; lru_cache stores the result
Resolve(t, a) ==
    /\ tpc[t] = "resolving"
    /\ LET d == tkey[t]
           r == check_dns_record(d, a)
           c2 == IF r.exc = NoExc THEN cache_store(cache, d, r.val) ELSE cache
           h0 == [hist EXCEPT !.saw[t] = FALSE, !.sawVal[t] = 0]
       IN  /\ last' = Finished(d, r, hist.saw[t], hist.sawVal[t], TRUE)
           /\ tpc' = [tpc EXCEPT ![t] = "idle"]
           /\ tkey' = [tkey EXCEPT ![t] = <<>>]
           /\ cache' = c2
           /\ hist' = Returned(Stored(h0, cache, c2, d), d, r)
    /\ UNCHANGED <<calls, pvars>>

InitCache ==
    /\ url = <<>>
    /\ ranked_domains = {}
    /\ explainer = "Deep"
    /\ warned = FALSE
    /\ pc = "idle"
    /\ features = <<>>
    /\ err = NoExc
    /\ outcome = NoOutcome
    /\ dnsSeen = "idle"
    /\ netUp = FALSE
    /\ shapSeen = NotCalled
    /\ cache = <<>>
    /\ IdleThreads
    /\ hist = NoHist

NextCache ==
    \/ \E t \in Threads, d \in CacheDomains : Call(t, d)
    \/ \E t \in Threads, a \in DnsAnswers : Resolve(t, a)

SpecCache == InitCache /\ [][NextCache]_vars

Spec == Init /\ [][Next]_vars

\* the requests of the termination check: one URL of each kind of host
LiveURLs == { HTTP \o h : h \in {HostPlain, HostIP, HostEmptyLabel, HostBracket} }

InitLive == Init /\ url \in LiveURLs

\* the program's own steps always run; the network need not answer
FairSpec ==
    /\ InitLive
    /\ [][Next]_vars
    /\ WF_vars(get_shap_explainer)
    /\ WF_vars(BeginRequest)
    /\ WF_vars(DnsCall)
    /\ WF_vars(MouseTimeout)
    /\ WF_vars(FwdTimeout)
    /\ WF_vars(\E sv \in ShapReturns : ExplainReturns(sv))

(***************************************************************************)
(* Properties.                                                             *)
(***************************************************************************)
Slot(f, k) == f[k + 1]
DepthSlot == 3
DnsSlot == 8
ProbeSlots == {8, 10, 11, 13, 15}

ExplainerWorked ==
    /\ shapSeen.called
    /\ ~shapSeen.raised
    /\ reshape_shap_values(shapSeen.ret).exc = NoExc

\* C2: for a parseable URL, with every network operation failing and the
\* explainer working, the request ends with a probability, never the error
\* outcome, and the probe slots 8, 10, 11, 13, 15 of the returned vector are 0.
C2_ProbabilityWhenNetworkDown ==
    (pc = "done" /\ urlparse(Stripped).ok /\ ~netUp
        /\ (shapSeen.called => ExplainerWorked)) =>
        /\ outcome.prediction = "float"
        /\ Len(outcome.features) = NSlots
        /\ \A k \in ProbeSlots : Slot(outcome.features, k) = 0

\* C3: whenever the DNS resolution fails, whatever the resolver call raises,
\* extract_features raises nothing, slot 8 is 0 and the slots that do not
\* depend on the network have the values they have when it succeeds.
DnsFailed == dnsSeen \in {"gaierror", "timeout", "UnicodeError"}

C3_DnsFailureIsolated ==
    DnsFailed =>
        /\ err # dnsSeen
        /\ Len(features) >= DnsSlot + 2
        /\ Slot(features, DnsSlot) = 0
        /\ SubSeq(features, 1, DnsSlot) = LexicalSlots(Stripped)
        /\ Slot(features, DnsSlot + 1) = get_web_traffic(Domain, ranked_domains)

\* C4: for a URL the parser rejects, the request still ends with a
\* probability and a full 16-slot vector whose host-based lexical slots are
\* those of an empty host.
C4_UnparseableUrlStillScored ==
    (pc = "done" /\ ~urlparse(Stripped).ok /\ (shapSeen.called => ExplainerWorked)) =>
        /\ outcome.prediction = "float"
        /\ Len(outcome.features) = NSlots
        /\ \A k \in 5..7 : Slot(outcome.features, k) = 0

\* a dotted-quad IPv4 literal: four groups of 1 to 3 digits separated by dots
IsDottedQuad(h) ==
    /\ CountChar(h, ".") = 3
    /\ h # <<>>
    /\ h[1] # "." /\ h[Len(h)] # "."
    /\ \A i \in DOMAIN h : h[i] \in Digits \cup {"."}
    /\ \A i \in 1..(Len(h) - 1) : ~(h[i] = "." /\ h[i + 1] = ".")
    /\ \A i \in 1..(Len(h) - 3) : \E j \in i..(i + 3) : h[j] = "."

\* C5: slot 0 is 1 exactly for the URLs whose host is a dotted-quad IPv4
\* literal.
C5_IpLiteralDetected ==
    (pc = "dns") =>
        (Slot(features, 0) = 1 <=> IsDottedQuad(Domain))

\* C6: when the DeepExplainer raises while it computes the attributions of
\* a request, the fallback is used, a warning is shown and the request does
\* not end with the error outcome.
C6_FallbackOnIncompatibility ==
    (pc = "done" /\ shapSeen.raised) =>
        /\ warned
        /\ outcome.prediction = "float"

\* C7 as stated: while a domain's entry is not evicted, at most one resolver
\* query is sent for it, concurrent callers included, and every call returns
\* the value the first one returned.
C7_AtMostOneResolution ==
    /\ \A d \in CacheDomains : hist.issued[d] <= 1
    /\ ~hist.differ

\* C7 amended: a call that starts while the domain's entry is in the cache
\* sends no resolver query and returns the cached value.
C7_CachedCallBypassesResolver ==
    (last.done /\ last.saw) =>
        /\ ~last.resolved
        /\ last.ret = Returns(last.sawVal)

C7_Witness ==
    /\ last.done /\ last.saw
    /\ hist.issued[last.key] = 1
    /\ last.ret = Returns(hist.first[last.key])

\* C8: extract_features eventually finishes, even when the resolver, the
\* WHOIS server or the HTTP server never answers.
C8_ExtractionTerminates == <>(pc \in {"extracted", "done"})

\* the explanation holds one attribution per slot, in slot order, for output 1
Aligned(a) ==
    /\ a.shape = <<1, NSlots>>
    /\ Len(a.data) = NSlots
    /\ \A k \in Slots : Slot(a.data, k) = <<k, 1>>

LastAxis(sv) == sv.items[1].shape[Len(sv.items[1].shape)]
Is3D(sv) == Len(sv.items[1].shape) = 3

\* C9 as stated: whatever shape the explainer returns (a list of per-output
\* arrays, 1 x 16, or 1 x 16 x k for any k >= 1), the request ends with an
\* explanation of exactly 16 values in slot order.
C9_AnyShapeNormalised ==
    (pc = "done" /\ shapSeen.called /\ ~shapSeen.raised) =>
        /\ outcome.prediction = "float"
        /\ Aligned(outcome.shap_values)

\* C9 amended: for a list of per-output arrays, a 1 x 16 array or a
\* 1 x 16 x 1 array, the request ends with an explanation of exactly 16
\* values in slot order.
C9_SingleOutputNormalised ==
    (pc = "done" /\ shapSeen.called /\ ~shapSeen.raised
        /\ (Is3D(shapSeen.ret) => LastAxis(shapSeen.ret) = 1)) =>
        /\ outcome.prediction = "float"
        /\ Aligned(outcome.shap_values)

C9_Witness ==
    /\ pc = "done" /\ shapSeen.called /\ ~shapSeen.raised
    /\ Is3D(shapSeen.ret) /\ LastAxis(shapSeen.ret) = 1
    /\ Aligned(outcome.shap_values)

\* C10: the cache never holds more than maxsize entries, and every entry
\* evicted was the one whose last lookup or insert was the oldest.
C10_BoundedLRU ==
    /\ Len(cache) <= maxsize
    /\ hist.evictedOldest

C10_Witness ==
    /\ Len(cache) = maxsize
    /\ hist.evictions > 0
    /\ hist.evictedRefreshed

====
